---- MODULE Spec2Model ----
(***************************************************************************)
(* Model of covid.py: one run of create_graphs(opt).  The run is a linear  *)
(* pipeline: resolve options, read the CSV feed, filter, derive the rate   *)
(* and rolling-average columns, convert the dates and plot, set up the     *)
(* weekly ticks, save the figure.  Every step can raise, which ends the    *)
(* run (nothing in covid.py catches an exception).                         *)
(*                                                                         *)
(* Numbers: the feed's counts are integers; a derived value is an exact    *)
(* rational [kind |-> "num", num, den] in lowest terms, or the float       *)
(* specials "nan" and "inf".  Rounding of binary floating point is not     *)
(* modelled.                                                               *)
(***************************************************************************)
EXTENDS Integers, Sequences, FiniteSets, TLC

\* ------------------------------------------------------------------ bounds
MaxRows == 3          \* rows of a feed whose values are enumerated
MaxCount == 2         \* largest cumulative count enumerated
MaxInc == 1           \* largest daily increase enumerated
MaxW == 3             \* largest averaging window enumerated
MaxStateLen == 2      \* longest region code enumerated
WindowDays == 9       \* calendar days the enumerated date sets are drawn from
SyntheticRows == 30   \* rows kept by the filter in the synthetic feed
MaxLead == 2          \* rows below the threshold in front of the synthetic feed

\* ------------------------------------------------- program constants
AverageDefault == 7             \* get_options: --average default
PositiveStartDefault == 1000    \* get_options: --positive-start default
DaysPerWeek == 7                \* create_graphs: len(date)/7, days=i*7, 7*wks

\* ------------------------------------------------------- float arithmetic
Abs(x) == IF x < 0 THEN -x ELSE x

RECURSIVE GCD(_, _)
GCD(a, b) == IF b = 0 THEN a ELSE GCD(b, a % b)

NaN == [kind |-> "nan", num |-> 0, den |-> 1]
Inf == [kind |-> "inf", num |-> 1, den |-> 1]

\* the rational n/d, d > 0, in lowest terms
Rat(n, d) ==
    LET g == GCD(Abs(n), d)
    IN  [kind |-> "num", num |-> n \div g, den |-> d \div g]

Num(n) == Rat(n, 1)

\* a / b of two integer columns: x/0 is inf, 0/0 is nan (no exception)
IntDiv(a, b) ==
    IF b = 0 THEN (IF a = 0 THEN NaN ELSE Inf)
    ELSE IF b < 0 THEN Rat(-a, -b) ELSE Rat(a, b)

\* x * k for an integer k > 0
Times(x, k) == IF x.kind = "num" THEN Rat(x.num * k, x.den) ELSE x

Plus(x, y) ==
    IF x.kind = "nan" \/ y.kind = "nan" THEN NaN
    ELSE IF x.kind = "inf" \/ y.kind = "inf" THEN Inf
    ELSE LET g == GCD(x.den, y.den)
         IN  Rat(x.num * (y.den \div g) + y.num * (x.den \div g), (x.den \div g) * y.den)

Defined(x) == x.kind = "num"

\* x <= y for two defined values
Leq(x, y) == x.num * y.den <= y.num * x.den

\* ----------------------------------------------------------------- strings
\* a string is a sequence of one-character strings
Letters == {"i", "d", "I", "D"}
Chars == Letters \cup {"1"}

upper(c) == CASE c = "i" -> "I" [] c = "d" -> "D" [] OTHER -> c
lower(c) == CASE c = "I" -> "i" [] c = "D" -> "d" [] OTHER -> c

Upper(s) == [i \in 1..Len(s) |-> upper(s[i])]
Lower(s) == [i \in 1..Len(s) |-> lower(s[i])]

\* ------------------------------------------------------------------- dates
\* pandas.to_datetime(int, format='%Y%m%d'), datetime.weekday(), timedelta
Year(d) == d \div 10000
Month(d) == (d % 10000) \div 100
Day(d) == d % 100

IsLeap(y) == (y % 4 = 0) /\ ((y % 100 # 0) \/ (y % 400 = 0))

DaysInMonth(y, m) ==
    IF m = 2 THEN (IF IsLeap(y) THEN 29 ELSE 28)
    ELSE IF m \in {4, 6, 9, 11} THEN 30 ELSE 31

RECURSIVE DaysBeforeMonth(_, _)
DaysBeforeMonth(y, m) ==
    IF m <= 1 THEN 0 ELSE DaysBeforeMonth(y, m - 1) + DaysInMonth(y, m - 1)

DaysBeforeYear(y) ==
    (y - 1) * 365 + ((y - 1) \div 4) - ((y - 1) \div 100) + ((y - 1) \div 400)

ValidDate(d) ==
    /\ Year(d) \in 1..9999
    /\ Month(d) \in 1..12
    /\ Day(d) \in 1..DaysInMonth(Year(d), Month(d))

\* the proleptic Gregorian ordinal of a valid YYYYMMDD date (0001-01-01 is 1)
ToOrdinal(d) == DaysBeforeYear(Year(d)) + DaysBeforeMonth(Year(d), Month(d)) + Day(d)

\* Monday is 0
Weekday(o) == (o + 6) % 7

CeilDiv(n, k) == (n + k - 1) \div k

\* ------------------------------------------------------- series operations
RECURSIVE SumOf(_)
SumOf(s) == IF s = <<>> THEN Num(0) ELSE Plus(s[1], SumOf(Tail(s)))

\* the sum of the window, not divided by its length
MeanOfSum(s) ==
    IF \E i \in 1..Len(s) : ~Defined(s[i]) THEN NaN ELSE SumOf(s)

\* mean of a full window; a window holding a non-finite value has no mean
MeanOf(s) ==
    IF \E i \in 1..Len(s) : ~Defined(s[i]) THEN NaN
    ELSE LET t == SumOf(s) IN Rat(t.num, t.den * Len(s))

\* Series.rolling(window=w, center=False).mean(): the window of row j ends at
\* row j (rows j-w+1 .. j); rows without a full window are NaN (min_periods = w)
RollingMean(col, w) ==
    [j \in 1..Len(col) |->
        IF j < w THEN NaN ELSE MeanOf(SubSeq(col, j - w + 1, j))]

\* the shift in the other direction
ShiftForward(col, periods) ==
    [i \in 1..Len(col) |->
        IF (i + periods) \in 1..Len(col) THEN col[i + periods] ELSE NaN]

\* Series.shift(periods): row i takes the value of row i - periods, NaN when
\* that row does not exist
Shift(col, periods) ==
    [i \in 1..Len(col) |->
        IF (i - periods) \in 1..Len(col) THEN col[i - periods] ELSE NaN]

\* the shift one row short: the average lands on the first row of its window
RollingAvgStartAligned(col, w) == Shift(RollingMean(col, w), -(w - 1))

\* col.rolling(window=w, center=False).mean().shift(-w)
RollingAvg(col, w) == Shift(RollingMean(col, w), -w)

NumColumn(rows, name) == [i \in 1..Len(rows) |-> Num(rows[i][name])]

\* the comparison made inclusive
RetainedInclusive(row, threshold) == row.positive >= threshold

\* df[df['positive'] > positive_start]
Retained(row, threshold) == row.positive > threshold
FilterRows(rows, threshold) == SelectSeq(rows, LAMBDA r : Retained(r, threshold))

\* df['positive'] / (df['positive'] + df['negative']) * 100
InfectionRate(row) == Times(IntDiv(row.positive, row.positive + row.negative), 100)
\* numerator and denominator exchanged
DeathRateSwapped(row) == Times(IntDiv(row.positive, row.death), 100)

\* df['death'] / df['positive'] * 100
DeathRate(row) == Times(IntDiv(row.death, row.positive), 100)

InfectionRateCol(rows) == [i \in 1..Len(rows) |-> InfectionRate(rows[i])]
DeathRateCol(rows) == [i \in 1..Len(rows) |-> DeathRate(rows[i])]

\* ------------------------------------------------------ option resolution
HasState(o) == o.state_given /\ o.state # <<>>

Prefix(o) == IF HasState(o) THEN Upper(o.state) ELSE <<"U", "S">>
Url(o) ==
    IF HasState(o)
    THEN <<"https://covidtracking.com/api/v1/states/">> \o Lower(o.state) \o <<"/daily.csv">>
    ELSE <<"https://covidtracking.com/api/v1/us/daily.csv">>
Outfile(o) ==
    IF HasState(o)
    THEN <<"covid_">> \o o.state \o <<".pdf">>
    ELSE <<"covid_", "u", "s", ".pdf">>

\* ------------------------------------------------------------------- ticks
\* the extra week left out
WksNoExtra(date) == CeilDiv(Len(date), DaysPerWeek)

Wks(date) == CeilDiv(Len(date), DaysPerWeek) + 1
Start(date) == date[Len(date)] - Weekday(date[Len(date)])
XTicks(date) == [i \in 1..Wks(date) |-> Start(date) + (i - 1) * DaysPerWeek]
MinorTicks(date) == [i \in 1..(DaysPerWeek * Wks(date)) |-> Start(date) + (i - 1)]

\* ------------------------------------------------------------------- state
VARIABLES
    opt,       \* the parsed options: average, state, positive_start
    feed,      \* what the data endpoint answers: status, columns, rows
    pc,        \* the statement create_graphs is at
    prefix,    \* region label of the titles
    url,       \* source URL
    outfile,   \* output filename
    df,        \* the data frame's rows (the feed's rows, then the retained ones)
    cols,      \* the derived columns of df
    date,      \* the x-axis dates, as day ordinals
    xticks,    \* major ticks
    minor,     \* minor ticks
    fetches,   \* number of GET requests made
    saved,     \* the filenames written, in order
    log,       \* the steps completed, in order
    error      \* the exception that ended the run, "none" otherwise

vars == <<opt, feed, pc, prefix, url, outfile, df, cols, date, xticks, minor,
          fetches, saved, log, error>>

AllColumns == {"date", "positive", "negative", "positiveIncrease", "deathIncrease", "death"}

NoCols == [infection_rate |-> <<>>, infection_rate_avg |-> <<>>,
           new_cases_avg |-> <<>>, new_deaths_avg |-> <<>>,
           death_rate |-> <<>>, death_rate_avg |-> <<>>]

Row(d, p, n, pi, di, de) ==
    [date |-> d, positive |-> p, negative |-> n,
     positiveIncrease |-> pi, deathIncrease |-> di, death |-> de]

Opt(avg, given, st, thr) ==
    [average |-> avg, state_given |-> given, state |-> st, positive_start |-> thr]

OkFeed(rows) == [status |-> "ok", columns |-> AllColumns, rows |-> rows]

\* ------------------------------------------------------- enumerated inputs
\* the k-th calendar day counted from Wednesday 2020-02-26 (k = 1), as YYYYMMDD
Calendar(k) == IF k <= 4 THEN 20200225 + k ELSE 20200300 + (k - 4)

SeqsUpTo(S, n) == UNION {[1..m -> S] : m \in 0..n}

\* the elements of a set of integers in increasing order
RECURSIVE Ascending(_)
Ascending(S) ==
    IF S = {} THEN <<>>
    ELSE LET m == CHOOSE x \in S : \A y \in S : x <= y
         IN  <<m>> \o Ascending(S \ {m})

Reverse(s) == [i \in 1..Len(s) |-> s[Len(s) + 1 - i]]

\* a row well above the default threshold, on calendar day k
PlainRow(k) == Row(Calendar(k), PositiveStartDefault + k, PositiveStartDefault + k, k, 1, 0)

DefaultOpt == Opt(AverageDefault, FALSE, <<>>, PositiveStartDefault)

\* counts vary; the threshold is around them
CountFeeds ==
    {[i \in 1..Len(c) |-> Row(Calendar(i), c[i][1], c[i][2], c[i][1], c[i][3], c[i][3])] :
        c \in SeqsUpTo((0..MaxCount) \X (0..1) \X {-1, 0, MaxCount}, MaxRows - 1)}
PositiveFeeds ==
    {[i \in 1..Len(c) |-> Row(Calendar(i), c[i], 1, 1, 0, 0)] :
        c \in SeqsUpTo(0..MaxCount, MaxRows + 1)}
\* daily increases vary; every row is above the default threshold
IncreaseFeeds ==
    {[i \in 1..Len(c) |->
        Row(Calendar(i), PositiveStartDefault + i, PositiveStartDefault + i, c[i][1], c[i][2], 0)] :
        c \in SeqsUpTo((0..MaxInc) \X (0..MaxInc), MaxRows)}
\* the dates vary: any set of days of the window, oldest or newest first
DateFeeds ==
    LET days(S) == Ascending(S)
        rows(ks) == [i \in 1..Len(ks) |-> PlainRow(ks[i])]
    IN  {rows(days(S)) : S \in SUBSET (1..WindowDays)}
        \cup {rows(Reverse(days(S))) : S \in SUBSET (1..WindowDays)}
\* lead rows at or below the default threshold, then SyntheticRows rows above it
SyntheticFeed(lead, a, b) ==
    [i \in 1..(lead + SyntheticRows) |->
        Row(Calendar(i), PositiveStartDefault - lead + i, 0, a * i + b, b, 0)]

StateCodes == SeqsUpTo(Chars, MaxStateLen)

InitInputs ==
    \/ /\ feed \in {OkFeed(r) : r \in CountFeeds}
       /\ opt \in {Opt(w, FALSE, <<>>, t) : w \in 1..2, t \in {-1, 0, 1}}
    \/ /\ feed \in {OkFeed(r) : r \in PositiveFeeds}
       /\ opt \in {Opt(AverageDefault, FALSE, <<>>, t) : t \in -1..MaxCount}
    \/ /\ feed \in {OkFeed(r) : r \in IncreaseFeeds}
       /\ opt \in {Opt(w, FALSE, <<>>, PositiveStartDefault) : w \in 1..MaxW}
    \/ /\ feed \in {OkFeed(r) : r \in DateFeeds}
       /\ opt = DefaultOpt
    \/ /\ feed \in {OkFeed(SyntheticFeed(k, a, b)) :
                        k \in 0..MaxLead, a \in 0..MaxInc, b \in 0..MaxInc}
       /\ opt = DefaultOpt
    \/ /\ feed = OkFeed(<<PlainRow(1), PlainRow(2)>>)
       /\ opt \in {Opt(AverageDefault, g, s, PositiveStartDefault) :
                        g \in BOOLEAN, s \in StateCodes}
    \* the failures: no answer, an unparsable answer, a missing column,
    \* a date that is no calendar day, a negative window
    \/ /\ feed \in {[status |-> st, columns |-> AllColumns, rows |-> <<>>] :
                        st \in {"network_error", "empty", "malformed"}}
                   \cup {[status |-> "ok", columns |-> AllColumns \ {c},
                          rows |-> <<PlainRow(1), PlainRow(2)>>] : c \in AllColumns}
                   \cup {OkFeed(<<PlainRow(1), Row(20200230, PositiveStartDefault + 2, 1, 1, 1, 1)>>)}
       /\ opt = DefaultOpt
    \/ /\ feed = OkFeed(<<PlainRow(1), PlainRow(2)>>)
       /\ opt = Opt(-1, FALSE, <<>>, PositiveStartDefault)

Init ==
    /\ InitInputs
    /\ pc = "start"
    /\ prefix = <<>>
    /\ url = <<>>
    /\ outfile = <<>>
    /\ df = <<>>
    /\ cols = NoCols
    /\ date = <<>>
    /\ xticks = <<>>
    /\ minor = <<>>
    /\ fetches = 0
    /\ saved = <<>>
    /\ log = <<>>
    /\ error = "none"

\* ----------------------------------------------------------------- actions
\* an uncaught exception ends the run
Raise(e) == pc' = "failed" /\ error' = e

Done(step, next) == pc' = next /\ log' = Append(log, step) /\ error' = error

\* lines 22-29: the region label, the URL and the output filename
ResolveOptions ==
    /\ pc = "start"
    /\ prefix' = Prefix(opt)
    /\ url' = Url(opt)
    /\ outfile' = Outfile(opt)
    /\ Done("resolve", "read_csv")
    /\ UNCHANGED <<opt, feed, df, cols, date, xticks, minor, fetches, saved>>

\* line 32: df = pandas.read_csv(url); one GET, no retry
ReadCsv ==
    /\ pc = "read_csv"
    /\ fetches' = fetches + 1
    /\ \/ /\ feed.status = "ok"
          /\ df' = feed.rows
          /\ Done("fetch", "filter")
       \/ /\ feed.status # "ok"
          /\ Raise(feed.status)
          /\ UNCHANGED <<df, log>>
    /\ UNCHANGED <<opt, feed, prefix, url, outfile, cols, date, xticks, minor, saved>>

\* lines 35-36: index = df['positive'] > opt.positive_start; df = df[index]
Filter ==
    /\ pc = "filter"
    /\ \/ /\ "positive" \in feed.columns
          /\ df' = FilterRows(df, opt.positive_start)
          /\ Done("filter", "derive")
       \/ /\ "positive" \notin feed.columns
          /\ Raise("KeyError")
          /\ UNCHANGED <<df, log>>
    /\ UNCHANGED <<opt, feed, prefix, url, outfile, cols, date, xticks, minor, fetches, saved>>

DerivedCols(rows, w) ==
    [infection_rate     |-> InfectionRateCol(rows),
     infection_rate_avg |-> RollingAvg(InfectionRateCol(rows), w),
     new_cases_avg      |-> RollingAvg(NumColumn(rows, "positiveIncrease"), w),
     new_deaths_avg     |-> RollingAvg(NumColumn(rows, "deathIncrease"), w),
     death_rate         |-> DeathRateCol(rows),
     death_rate_avg     |-> RollingAvg(DeathRateCol(rows), w)]

\* lines 39-46: the rates and the four rolling averages
Derive ==
    /\ pc = "derive"
    /\ \/ /\ {"negative", "positiveIncrease", "deathIncrease", "death"} \subseteq feed.columns
          /\ opt.average >= 0
          /\ cols' = DerivedCols(df, opt.average)
          /\ Done("derive", "plot")
       \/ /\ ~({"negative", "positiveIncrease", "deathIncrease", "death"} \subseteq feed.columns)
          /\ Raise("KeyError")
          /\ UNCHANGED <<cols, log>>
       \/ /\ {"negative", "positiveIncrease", "deathIncrease", "death"} \subseteq feed.columns
          /\ opt.average < 0
          /\ Raise("ValueError")
          /\ UNCHANGED <<cols, log>>
    /\ UNCHANGED <<opt, feed, prefix, url, outfile, df, date, xticks, minor, fetches, saved>>

\* lines 49-78: the dates of the x axis and the four panels
Plot ==
    /\ pc = "plot"
    /\ \/ /\ "date" \in feed.columns
          /\ \A i \in 1..Len(df) : ValidDate(df[i].date)
          /\ date' = [i \in 1..Len(df) |-> ToOrdinal(df[i].date)]
          /\ Done("plot", "ticks")
       \/ /\ "date" \notin feed.columns
          /\ Raise("KeyError")
          /\ UNCHANGED <<date, log>>
       \/ /\ "date" \in feed.columns
          /\ \E i \in 1..Len(df) : ~ValidDate(df[i].date)
          /\ Raise("ValueError")
          /\ UNCHANGED <<date, log>>
    /\ UNCHANGED <<opt, feed, prefix, url, outfile, df, cols, xticks, minor, fetches, saved>>

\* lines 81-93: the weekly major ticks and the daily minor ticks
SetupTicks ==
    /\ pc = "ticks"
    /\ \/ /\ date # <<>>
          /\ xticks' = XTicks(date)
          /\ minor' = MinorTicks(date)
          /\ Done("ticks", "save")
       \/ /\ date = <<>>        \* date[-1] of an empty list
          /\ Raise("IndexError")
          /\ UNCHANGED <<xticks, minor, log>>
    /\ UNCHANGED <<opt, feed, prefix, url, outfile, df, cols, date, fetches, saved>>

\* the figure written whether or not the steps before it succeeded
SaveAnyway ==
    /\ pc \in {"save", "failed"}
    /\ saved' = Append(saved, outfile)
    /\ Done("save", "done")
    /\ UNCHANGED <<opt, feed, prefix, url, outfile, df, cols, date, xticks, minor, fetches>>

\* line 95: fig.savefig(outfile)
Save ==
    /\ pc = "save"
    /\ saved' = Append(saved, outfile)
    /\ Done("save", "done")
    /\ UNCHANGED <<opt, feed, prefix, url, outfile, df, cols, date, xticks, minor, fetches>>

Next ==
    \/ ResolveOptions
    \/ ReadCsv
    \/ Filter
    \/ Derive
    \/ Plot
    \/ SetupTicks
    \/ Save

Spec == Init /\ [][Next]_vars

\* ------------------------------------------------------------- properties
Did(step) == \E i \in 1..Len(log) : log[i] = step

Threshold == opt.positive_start
W == opt.average
N == Len(df)

\* sum of an integer field over rows a..b of the filtered series
RECURSIVE FieldSum(_, _, _)
FieldSum(name, a, b) == IF a > b THEN 0 ELSE df[a][name] + FieldSum(name, a + 1, b)

\* v is the mean of the integer field over rows a..b
IsMeanOf(v, name, a, b) ==
    Defined(v) /\ v.num * (b - a + 1) = v.den * FieldSum(name, a, b)

\* indices of the feed's rows above the threshold, and the j-th of them
KeptIdx == {i \in 1..Len(feed.rows) : feed.rows[i].positive > Threshold}
NthKept(j) == CHOOSE i \in KeptIdx : Cardinality({x \in KeptIdx : x <= i}) = j

NonDecreasing ==
    \A i \in 1..(Len(feed.rows) - 1) : feed.rows[i].positive <= feed.rows[i + 1].positive

\* C1: after the filter step the data frame holds exactly the feed's records
\* with positive > threshold (a record with positive = threshold is dropped),
\* in the feed's order and unchanged; when positive is non-decreasing and first
\* exceeds the threshold at row k, the frame is the feed's rows k..end.
C1_FilterKeepsExactlyAbove ==
    Did("filter") =>
        /\ Len(df) = Cardinality(KeptIdx)
        /\ \A j \in 1..Len(df) : df[j] = feed.rows[NthKept(j)]
        /\ \A k \in 1..Len(feed.rows) :
              (NonDecreasing /\ k \in KeptIdx /\ \A i \in 1..(k - 1) : i \notin KeptIdx)
                  => df = SubSeq(feed.rows, k, Len(feed.rows))

\* a non-decreasing feed that crosses the threshold at its third row, whose
\* second row sits exactly on the threshold, has been filtered
C1_Witness ==
    /\ Did("filter")
    /\ NonDecreasing
    /\ Len(feed.rows) = 4
    /\ feed.rows[2].positive = Threshold
    /\ KeptIdx = {3, 4}
    /\ df = SubSeq(feed.rows, 3, 4)

\* C2 as claimed: the average stored at row i is the mean of the w raw values
\* of rows i .. i+w-1 (with w = 7 and 30 rows: row 0 holds the mean of rows 0-6)
C2_AsClaimed ==
    (Did("derive") /\ W = AverageDefault /\ N = SyntheticRows) =>
        IsMeanOf(cols.new_cases_avg[1], "positiveIncrease", 1, W)

\* C2 amended: the average stored at row i is the mean of the w raw values of
\* the rows that follow it, i+1 .. i+w (with w = 7 and 30 rows: row 0 holds
\* the mean of rows 1-7)
C2_AvgIsMeanOfFollowingRows ==
    (Did("derive") /\ W >= 1) =>
        \A i \in 1..N :
            (i + W <= N) => IsMeanOf(cols.new_cases_avg[i], "positiveIncrease", i + 1, i + W)

\* 30 filtered rows, w = 7, and the mean of rows 1-7 differs from that of rows 0-6
C2_Witness ==
    /\ Did("derive")
    /\ W = AverageDefault
    /\ N = SyntheticRows
    /\ IsMeanOf(cols.new_cases_avg[1], "positiveIncrease", 2, W + 1)
    /\ ~IsMeanOf(cols.new_cases_avg[1], "positiveIncrease", 1, W)

\* the four raw columns and their rolling averages
RawCol(name) ==
    CASE name = "infection_rate_avg" -> cols.infection_rate
      [] name = "death_rate_avg" -> cols.death_rate
      [] name = "new_cases_avg" -> NumColumn(df, "positiveIncrease")
      [] name = "new_deaths_avg" -> NumColumn(df, "deathIncrease")
AvgNames == {"infection_rate_avg", "death_rate_avg", "new_cases_avg", "new_deaths_avg"}

ConstantCol(c) == c # <<>> /\ Defined(c[1]) /\ \A i \in 1..Len(c) : c[i] = c[1]

\* C3 as claimed: for a constant series the average equals the constant except
\* at the trailing w-1 rows, which are exactly the undefined ones
C3_AsClaimed ==
    (Did("derive") /\ 1 <= W /\ W <= N) =>
        \A a \in AvgNames :
            ConstantCol(RawCol(a)) =>
                \A i \in 1..N :
                    IF i <= N - (W - 1) THEN cols[a][i] = RawCol(a)[1]
                    ELSE ~Defined(cols[a][i])

\* C3 amended: for a constant series of n rows and 1 <= w <= n the average
\* equals the constant at the first n-w rows, and exactly the trailing w rows
\* are undefined
C3_ConstantSeries ==
    (Did("derive") /\ 1 <= W /\ W <= N) =>
        \A a \in AvgNames :
            ConstantCol(RawCol(a)) =>
                \A i \in 1..N :
                    IF i <= N - W THEN cols[a][i] = RawCol(a)[1]
                    ELSE ~Defined(cols[a][i])

\* three rows of one positive daily increase, w = 2: one average, two gaps
C3_Witness ==
    /\ Did("derive")
    /\ N = 3 /\ W = 2
    /\ ConstantCol(RawCol("new_cases_avg"))
    /\ df[1].positiveIncrease > 0
    /\ cols.new_cases_avg[1] = Num(df[1].positiveIncrease)
    /\ ~Defined(cols.new_cases_avg[2])
    /\ ~Defined(cols.new_cases_avg[3])

WellFormed(r) == r.negative >= 0 /\ r.death >= 0 /\ r.death <= r.positive
InPercentRange(x) == Defined(x) /\ Leq(Num(0), x) /\ Leq(x, Num(100))

\* C4 as claimed: for every threshold, the rates of a retained well-formed
\* record are defined and within [0, 100]
C4_AsClaimed ==
    Did("derive") =>
        \A i \in 1..N :
            WellFormed(df[i]) =>
                InPercentRange(cols.infection_rate[i]) /\ InPercentRange(cols.death_rate[i])

\* C4 amended: for every threshold >= 0, the rates of a retained record with
\* negative >= 0 and 0 <= death <= positive are defined and within [0, 100]
C4_RatesInRange ==
    (Did("derive") /\ Threshold >= 0) =>
        \A i \in 1..N :
            WellFormed(df[i]) =>
                InPercentRange(cols.infection_rate[i]) /\ InPercentRange(cols.death_rate[i])

\* a well-formed record with rates strictly inside the interval next to an
\* ill-formed one whose death rate is above 100
C4_Witness ==
    /\ Did("derive")
    /\ Threshold >= 0
    /\ \E i \in 1..N :
          /\ WellFormed(df[i])
          /\ ~Leq(cols.infection_rate[i], Num(0))
          /\ ~Leq(Num(100), cols.infection_rate[i])
          /\ cols.death_rate[i] = Num(100)
    /\ \E i \in 1..N :
          /\ ~WellFormed(df[i])
          /\ Defined(cols.death_rate[i])
          /\ ~Leq(cols.death_rate[i], Num(100))

RECURSIVE SeqMin(_)
SeqMin(s) == IF Len(s) = 1 THEN s[1]
             ELSE LET m == SeqMin(Tail(s)) IN IF s[1] < m THEN s[1] ELSE m
RECURSIVE SeqMax(_)
SeqMax(s) == IF Len(s) = 1 THEN s[1]
             ELSE LET m == SeqMax(Tail(s)) IN IF s[1] > m THEN s[1] ELSE m

\* calendar days from the earliest to the latest date of the series
Spanned == SeqMax(date) - SeqMin(date) + 1

StrictlyIncreasing(s) == \A i \in 1..(Len(s) - 1) : s[i] < s[i + 1]

\* the ticks are Mondays a week apart, the first one the Monday on or before
\* the date of the last row
WeeklyFromLastRow ==
    /\ \A i \in 1..(Len(xticks) - 1) : xticks[i + 1] - xticks[i] = 7
    /\ \A i \in 1..Len(xticks) : Weekday(xticks[i]) = 0
    /\ xticks[1] <= date[Len(date)]
    /\ date[Len(date)] - xticks[1] <= 6

\* C5 as claimed: ceil(N/7)+1 major ticks for a series spanning N days, also
\* when calendar days are missing from the series
C5_AsClaimed ==
    Did("ticks") =>
        /\ Len(xticks) = CeilDiv(Spanned, 7) + 1
        /\ WeeklyFromLastRow

\* C5 amended: ceil(n/7)+1 major ticks for a series of n rows, which is
\* ceil(N/7)+1 when no calendar day of the N spanned is missing; the ticks are
\* Mondays 7 days apart, the first the Monday on or before the last row's date
C5_TickCountFromRows ==
    Did("ticks") =>
        /\ Len(xticks) = CeilDiv(Len(date), 7) + 1
        /\ (Spanned = Len(date)) => (Len(xticks) = CeilDiv(Spanned, 7) + 1)
        /\ WeeklyFromLastRow

\* seven rows spanning eight days: two ticks, where the days spanned give three
C5_Witness ==
    /\ Did("ticks")
    /\ Len(date) = 7
    /\ Spanned = 8
    /\ Len(xticks) = 2
    /\ CeilDiv(Spanned, 7) + 1 = 3
    /\ Weekday(date[Len(date)]) # 0

\* C6 as claimed: two region codes that differ only in letter case resolve the
\* same label, URL and output filename; no region code gives covid_us.pdf
C6_AsClaimed ==
    (pc # "start") =>
        /\ HasState(opt) =>
              \A s2 \in StateCodes :
                  (Lower(s2) = Lower(opt.state)) =>
                      /\ prefix = Prefix([opt EXCEPT !.state = s2])
                      /\ url = Url([opt EXCEPT !.state = s2])
                      /\ outfile = Outfile([opt EXCEPT !.state = s2])
        /\ ~opt.state_given => outfile = <<"covid_", "u", "s", ".pdf">>

\* C7 as claimed: a run whose filter retains no record does not end in an error
C7_AsClaimed ==
    (Did("filter") /\ df = <<>>) => (pc # "failed")

\* C8 as claimed: with strictly increasing dates the major ticks start at the
\* Monday on or before the latest date and every date of the series lies
\* between the earliest and the latest major tick; the minor ticks are the
\* consecutive days of that span
C8_AsClaimed ==
    (Did("ticks") /\ StrictlyIncreasing(date)) =>
        /\ WeeklyFromLastRow
        /\ \A i \in 1..Len(date) :
              xticks[1] <= date[i] /\ date[i] <= xticks[Len(xticks)]
        /\ minor[1] = xticks[1]
        /\ \A i \in 1..(Len(minor) - 1) : minor[i + 1] = minor[i] + 1

AllDefined(c) == \A i \in 1..Len(c) : Defined(c[i])

\* v is the mean of w consecutive values of the column c
MeanOfSomeWindow(v, c, w) ==
    \E j \in 1..(Len(c) - w + 1) : Times(v, w) = SumOf(SubSeq(c, j, j + w - 1))

\* C9 as claimed: for 1 <= w <= n each of the four averages is defined at
\* exactly the first n-w rows, each defined value the mean of w consecutive
\* raw values of the filtered series
C9_AsClaimed ==
    (Did("derive") /\ 1 <= W /\ W <= N) =>
        \A a \in AvgNames :
            \A i \in 1..N :
                /\ Defined(cols[a][i]) <=> (i <= N - W)
                /\ Defined(cols[a][i]) => MeanOfSomeWindow(cols[a][i], RawCol(a), W)

\* C9 amended: the same, for each average whose raw column holds only defined
\* values (the two daily-increase columns always; a rate column when no
\* retained record divides by zero)
C9_DefinedAtFirstRows ==
    (Did("derive") /\ 1 <= W /\ W <= N) =>
        \A a \in AvgNames :
            AllDefined(RawCol(a)) =>
                \A i \in 1..N :
                    /\ Defined(cols[a][i]) <=> (i <= N - W)
                    /\ Defined(cols[a][i]) => MeanOfSomeWindow(cols[a][i], RawCol(a), W)

\* three rows, w = 2, daily increases that tell the windows apart: one
\* average, the mean of rows 2 and 3, then two gaps
C9_Witness ==
    /\ Did("derive")
    /\ N = 3 /\ W = 2
    /\ df[1].positiveIncrease # df[3].positiveIncrease
    /\ IsMeanOf(cols.new_cases_avg[1], "positiveIncrease", 2, 3)
    /\ ~Defined(cols.new_cases_avg[2])
    /\ ~Defined(cols.new_cases_avg[3])
    /\ Defined(cols.infection_rate_avg[1])

Pipeline == <<"resolve", "fetch", "filter", "derive", "plot", "ticks", "save">>

\* C10: the steps run in the order fetch, filter, derive, plot, save; the feed
\* is requested at most once; a failed acquisition (no answer, an unparsable
\* answer, a missing column) ends the run in the error state, from which no
\* step is taken; the file is written only once, after every earlier step has
\* completed, and a failed run has written nothing
C10_LinearPipeline ==
    /\ log = SubSeq(Pipeline, 1, Len(log))
    /\ fetches <= 1
    /\ Did("fetch") => fetches = 1
    /\ (fetches = 1 /\ feed.status # "ok") => (pc = "failed" /\ error = feed.status)
    /\ (pc = "done") => (feed.status = "ok" /\ feed.columns = AllColumns)
    /\ (pc = "failed") => (saved = <<>> /\ error # "none" /\ ~ENABLED Next)
    /\ (saved # <<>>) => (saved = <<outfile>> /\ log = Pipeline /\ error = "none")

\* the request was made once, failed, and the run ended without a file
C10_Witness ==
    /\ pc = "failed"
    /\ feed.status = "network_error"
    /\ error = "network_error"
    /\ fetches = 1
    /\ log = <<"resolve">>
    /\ saved = <<>>

====
